---- MODULE Spec2Model ----
(***************************************************************************)
(* The admission-controlled job router of rasa/nlu/data_router.py:         *)
(* DataRouter.start_train_process, DataRouter.evaluate, DataRouter.parse   *)
(* (lazy registration), the future -> Deferred bridge                      *)
(* deferred_from_future and the completion handlers attached to the        *)
(* Deferred.  The reactor thread owns the router state; the process pool's *)
(* management thread only fires future done-callbacks.                     *)
(***************************************************************************)
EXTENDS Integers, Sequences, FiniteSets, TLC

\* ------------------------------------------------------------------ bounds
\* largest max_worker_processes handed to the constructor
MaxWorkers == 2
\* number of jobs ever submitted to the pool in one behaviour
MaxJobs == 2

\* --------------------------------------------------------------- constants
None == "None"
STATUS_READY == "READY"
STATUS_TRAINING == "TRAINING"
STATUS_FAILED == "FAILED"
FALLBACK_MODEL_NAME == "fallback"
DEFAULT_PROJECT_NAME == "default"
\* mutant: the handlers are called where the completion fires
DEFERRED_RUN_INLINE == FALSE

\* the handlers are passed to the reactor thread by reactor.callFromThread
DEFERRED_RUN_IN_REACTOR_THREAD == TRUE

InvalidProjectError == "InvalidProjectError"
UnsupportedModelError == "UnsupportedModelError"
MaxWorkerProcessError == "MaxWorkerProcessError"

\* project names a request can carry ("" is the empty name)
ProjectNames == {"default", "A"}
ProjectArgs == ProjectNames \cup {""}
\* model argument of evaluate: None, a model name, or the fallback name
ModelArgs == {None, "m0", FALLBACK_MODEL_NAME}
\* message of the exception a worker job raises (Exception() has message "")
JobErrors == {""}
\* the exception Project.update raises when recording the model fails
UpdateError == "update"
\* file name of the model a training job persists
TrainedModel == "m1"

VARIABLES
    worker_processes,           \* self._worker_processes
    current_worker_processes,   \* self._current_worker_processes
    project_store,              \* self.project_store: name -> Project
    futures,                    \* jobs submitted to self.pool, in order
    reactor_queue,              \* calls queued by reactor.callFromThread
    pool_thread                 \* the call the pool's thread is making

vars == <<worker_processes, current_worker_processes, project_store,
          futures, reactor_queue, pool_thread>>

\* ------------------------------------------------------------------ helpers
Max(a, b) == IF a >= b THEN a ELSE b

\* dict item assignment  store[key] = value
Put(store, key, value) ==
    [k \in DOMAIN store \cup {key} |-> IF k = key THEN value ELSE store[k]]

\* os.path.basename(os.path.normpath(path)) on a path given by its components
basename(path) == path[Len(path)]

\* os.path.join(project_dir, project, model): the path do_train_in_worker returns
model_path_of(project, model) == <<"projects", project, model>>

\* Project(...): a fresh record, with the models found on disk
Project(models) ==
    [status |-> STATUS_READY,
     current_worker_processes |-> 0,
     error_message |-> None,
     models |-> models]

\* Project._dynamic_load_model(None): the most recent model, else the fallback
dynamic_load_model(proj) ==
    IF proj.models = <<>> THEN FALLBACK_MODEL_NAME
    ELSE proj.models[Len(proj.models)]

\* Project.update(model_dir): record the new model under the project
update(proj, model_dir) == [proj EXCEPT !.models = Append(@, model_dir)]

\* str(failure) of a twisted Failure wrapping exception e
str_failure(e) == "[Failure instance: " \o e \o "]"

\* results travelling down a Deferred's callback chain
Success(v) == [ok |-> TRUE, value |-> v]
Failure(e) == [ok |-> FALSE, value |-> e]

\* the router state a completion handler reads and writes
RouterState(cwp, store) == [cwp |-> cwp, store |-> store]
Outcome(s, result) == [cwp |-> s.cwp, store |-> s.store, result |-> result]

\* --------------------------------------------------- completion handlers
\* mutant: READY as soon as the project's count is 0, whatever the status
training_callback_any_status(s, project, model_path, update_ok) ==
    IF ~update_ok THEN Outcome(s, Failure(UpdateError))
    ELSE
    LET s1 == [s.store EXCEPT ![project] = update(@, basename(model_path))]
        s2 == [s1 EXCEPT ![project].current_worker_processes = @ - 1]
        s3 == IF s2[project].current_worker_processes = 0
              THEN [s2 EXCEPT ![project].status = STATUS_READY]
              ELSE s2
    IN [cwp |-> s.cwp - 1, store |-> s3, result |-> Success(model_path)]

\* mutant: the counters are decremented before the model is recorded
training_callback_decrements_first(s, project, model_path, update_ok) ==
    LET cwp == s.cwp - 1
        s1 == [s.store EXCEPT ![project].current_worker_processes = @ - 1]
    IN IF ~update_ok
       THEN [cwp |-> cwp, store |-> s1, result |-> Failure(UpdateError)]
       ELSE
       LET s2 == [s1 EXCEPT ![project] = update(@, basename(model_path))]
           s3 == IF /\ s2[project].status = STATUS_TRAINING
                    /\ s2[project].current_worker_processes = 0
                 THEN [s2 EXCEPT ![project].status = STATUS_READY]
                 ELSE s2
       IN [cwp |-> cwp, store |-> s3, result |-> Success(model_path)]

\* training_callback(model_path); update_ok: whether Project.update returns
training_callback(s, project, model_path, update_ok) ==
    IF ~update_ok THEN Outcome(s, Failure(UpdateError))
    ELSE
    LET model_dir == basename(model_path)
        s1 == [s.store EXCEPT ![project] = update(@, model_dir)]
        cwp == s.cwp - 1
        s2 == [s1 EXCEPT ![project].current_worker_processes = @ - 1]
        s3 == IF /\ s2[project].status = STATUS_TRAINING
                 /\ s2[project].current_worker_processes = 0
              THEN [s2 EXCEPT ![project].status = STATUS_READY]
              ELSE s2
    IN [cwp |-> cwp, store |-> s3, result |-> Success(model_path)]

\* mutant: the message of the exception instead of str(failure)
training_errback_bare_message(s, project, failure) ==
    [cwp |-> s.cwp - 1,
     store |-> [s.store EXCEPT
                  ![project].current_worker_processes = @ - 1,
                  ![project].status = STATUS_FAILED,
                  ![project].error_message = failure.value],
     result |-> failure]

\* mutant: the failure path forgets the router's counter
training_errback_keeps_global(s, project, failure) ==
    [cwp |-> s.cwp,
     store |-> [s.store EXCEPT
                  ![project].current_worker_processes = @ - 1,
                  ![project].status = STATUS_FAILED,
                  ![project].error_message = str_failure(failure.value)],
     result |-> failure]

\* mutant: the failure is recorded on every registered project
training_errback_fails_all(s, project, failure) ==
    LET cwp == s.cwp - 1
        s1 == [s.store EXCEPT ![project].current_worker_processes = @ - 1]
        s3 == [q \in DOMAIN s1 |->
                 [s1[q] EXCEPT !.status = STATUS_FAILED,
                               !.error_message = str_failure(failure.value)]]
    IN [cwp |-> cwp, store |-> s3, result |-> failure]

\* training_errback(failure)
training_errback(s, project, failure) ==
    LET cwp == s.cwp - 1
        s1 == [s.store EXCEPT ![project].current_worker_processes = @ - 1]
        s2 == [s1 EXCEPT ![project].status = STATUS_FAILED]
        s3 == [s2 EXCEPT ![project].error_message = str_failure(failure.value)]
    IN [cwp |-> cwp, store |-> s3, result |-> failure]

\* mutant: an evaluation that leaves its project idle marks it READY
evaluation_callback_marks_ready(s, project, result) ==
    LET cwp == s.cwp - 1
        s1 == [s.store EXCEPT ![project].current_worker_processes = @ - 1]
        s2 == IF s1[project].current_worker_processes = 0
              THEN [s1 EXCEPT ![project].status = STATUS_READY]
              ELSE s1
    IN [cwp |-> cwp, store |-> s2, result |-> Success(result)]

\* evaluation_callback(result)
evaluation_callback(s, project, result) ==
    LET cwp == s.cwp - 1
        s1 == [s.store EXCEPT ![project].current_worker_processes = @ - 1]
    IN [cwp |-> cwp, store |-> s1, result |-> Success(result)]

\* mutant: the failure path forgets the project's counter
evaluation_errback_keeps_project(s, project, failure) ==
    [cwp |-> s.cwp - 1, store |-> s.store, result |-> failure]

\* mutant: the failure path of training pasted into evaluation
evaluation_errback_marks_failed(s, project, failure) ==
    [cwp |-> s.cwp - 1,
     store |-> [s.store EXCEPT
                  ![project].current_worker_processes = @ - 1,
                  ![project].status = STATUS_FAILED,
                  ![project].error_message = str_failure(failure.value)],
     result |-> failure]

\* evaluation_errback(failure)
evaluation_errback(s, project, failure) ==
    LET cwp == s.cwp - 1
        s1 == [s.store EXCEPT ![project].current_worker_processes = @ - 1]
    IN [cwp |-> cwp, store |-> s1, result |-> failure]

\* the outcome of a callback chain, with the handlers that ran, in order
Ran(o, handlers) ==
    [cwp |-> o.cwp, store |-> o.store, result |-> o.result, ran |-> handlers]

\* result.addCallback(training_callback); result.addErrback(training_errback)
\* fired with `result`: the errback also receives a failure of the callback
training_deferred(s, project, result, update_ok) ==
    LET o1 == IF result.ok
              THEN training_callback(s, project, result.value, update_ok)
              ELSE Outcome(s, result)
        ran1 == IF result.ok THEN <<"callback">> ELSE <<>>
    IN IF o1.result.ok
       THEN Ran(o1, ran1)
       ELSE Ran(training_errback(o1, project, o1.result),
                Append(ran1, "errback"))

\* result.addCallback(evaluation_callback); result.addErrback(evaluation_errback)
evaluation_deferred(s, project, result) ==
    LET o1 == IF result.ok
              THEN evaluation_callback(s, project, result.value)
              ELSE Outcome(s, result)
        ran1 == IF result.ok THEN <<"callback">> ELSE <<>>
    IN IF o1.result.ok
       THEN Ran(o1, ran1)
       ELSE Ran(evaluation_errback(o1, project, o1.result),
                Append(ran1, "errback"))

\* ---------------------------------------------------------------- requests
\* mutant: the comparison off by one
AtCapacity_off_by_one(max, cur) == max < cur

\* the admission check  self._worker_processes <= self._current_worker_processes
AtCapacity(max, cur) == max <= cur

\* mutant: the job is handed to the pool twice
Submit_twice(jobs, project, kind) ==
    LET job == [project |-> project, kind |-> kind, done |-> FALSE,
                exception |-> None, deferred |-> "pending",
                handlers |-> <<>>]
    IN Append(Append(jobs, job), job)

\* self.pool.submit(...) followed by deferred_from_future(result)
Submit(jobs, project, kind) ==
    Append(jobs, [project |-> project, kind |-> kind, done |-> FALSE,
                  exception |-> None, deferred |-> "pending",
                  handlers |-> <<>>])

\* the models a Project finds on disk when it is constructed
InitialModels == {<<>>, <<"m0">>}

\* mutant: only a new project is marked, a registered one keeps its status
MarkTraining_new_only(store, project, models) ==
    IF project \in DOMAIN store
    THEN store
    ELSE Put(store, project,
             [Project(models) EXCEPT !.status = STATUS_TRAINING])

\* the branch of start_train_process that registers and marks the project
MarkTraining(store, project, models) ==
    IF project \in DOMAIN store
    THEN [store EXCEPT ![project].status = STATUS_TRAINING]
    ELSE Put(store, project,
             [Project(models) EXCEPT !.status = STATUS_TRAINING])

\* mutant: the capacity is checked before the project name
start_train_process_result_capacity_first(project) ==
    IF AtCapacity(worker_processes, current_worker_processes)
    THEN MaxWorkerProcessError
    ELSE IF project = "" THEN InvalidProjectError
    ELSE "Deferred"

\* what start_train_process hands back: the exception it raises, or a Deferred
start_train_process_result(project) ==
    IF project = "" THEN InvalidProjectError
    ELSE IF AtCapacity(worker_processes, current_worker_processes)
    THEN MaxWorkerProcessError
    ELSE "Deferred"

\* mutant: the project is registered and marked before the capacity check
start_train_process_marks_first(project) ==
    /\ IF project = ""
       THEN UNCHANGED <<current_worker_processes, project_store, futures>>
       ELSE \E models \in InitialModels :
            LET s1 == MarkTraining(project_store, project, models)
            IN IF AtCapacity(worker_processes, current_worker_processes)
               THEN /\ project_store' = s1
                    /\ UNCHANGED <<current_worker_processes, futures>>
               ELSE /\ Len(futures) < MaxJobs
                    /\ current_worker_processes' = current_worker_processes + 1
                    /\ project_store' =
                         [s1 EXCEPT ![project].current_worker_processes = @ + 1]
                    /\ futures' = Submit(futures, project, "train")
    /\ UNCHANGED <<worker_processes, reactor_queue, pool_thread>>

start_train_process(project) ==
    /\ IF start_train_process_result(project) # "Deferred"
       THEN UNCHANGED <<current_worker_processes, project_store, futures>>
       ELSE \E models \in InitialModels :
            LET s1 == MarkTraining(project_store, project, models)
            IN /\ Len(futures) < MaxJobs
               /\ current_worker_processes' = current_worker_processes + 1
               /\ project_store' =
                    [s1 EXCEPT ![project].current_worker_processes = @ + 1]
               /\ futures' = Submit(futures, project, "train")
    /\ UNCHANGED <<worker_processes, reactor_queue, pool_thread>>

\* project = project or RasaNLUModelConfig.DEFAULT_PROJECT_NAME
project_or_default(project) ==
    IF project = "" THEN DEFAULT_PROJECT_NAME ELSE project

\* model = model or self.project_store[project]._dynamic_load_model(model)
model_or_loaded(store, project, model) ==
    IF model # None THEN model ELSE dynamic_load_model(store[project])

\* what evaluate hands back: the exception it raises, or a Deferred
evaluate_result(project, model) ==
    IF AtCapacity(worker_processes, current_worker_processes)
    THEN MaxWorkerProcessError
    ELSE IF project_or_default(project) \notin DOMAIN project_store
    THEN InvalidProjectError
    ELSE IF model_or_loaded(project_store, project_or_default(project), model)
               = FALLBACK_MODEL_NAME
    THEN UnsupportedModelError
    ELSE "Deferred"

\* mutant: the counters are incremented before the model is checked
evaluate_counts_first(project, model) ==
    /\ IF \/ AtCapacity(worker_processes, current_worker_processes)
          \/ project_or_default(project) \notin DOMAIN project_store
       THEN UNCHANGED <<current_worker_processes, project_store, futures>>
       ELSE LET p == project_or_default(project)
            IN /\ Len(futures) < MaxJobs
               /\ current_worker_processes' = current_worker_processes + 1
               /\ project_store' =
                    [project_store EXCEPT ![p].current_worker_processes = @ + 1]
               /\ futures' = IF evaluate_result(project, model) = "Deferred"
                             THEN Submit(futures, p, "evaluate")
                             ELSE futures
    /\ UNCHANGED <<worker_processes, reactor_queue, pool_thread>>

\* evaluate(data, project, model): the validation, then the submission
evaluate(project, model) ==
    /\ IF evaluate_result(project, model) # "Deferred"
       THEN UNCHANGED <<current_worker_processes, project_store, futures>>
       ELSE LET p == project_or_default(project)
            IN /\ Len(futures) < MaxJobs
               /\ current_worker_processes' = current_worker_processes + 1
               /\ project_store' =
                    [project_store EXCEPT ![p].current_worker_processes = @ + 1]
               /\ futures' = Submit(futures, p, "evaluate")
    /\ UNCHANGED <<worker_processes, reactor_queue, pool_thread>>

\* parse of a project: one that is not registered yet is looked up among the
\* listed projects and registered when found
parse(project) ==
    /\ IF project \in DOMAIN project_store
       THEN UNCHANGED project_store
       ELSE \E found \in BOOLEAN, models \in InitialModels :
            IF found
            THEN project_store' = Put(project_store, project, Project(models))
            ELSE UNCHANGED project_store
    /\ UNCHANGED <<worker_processes, current_worker_processes, futures,
                   reactor_queue, pool_thread>>

\* ------------------------------------------------------------------ bridge
\* what a finished job hands to its Deferred
job_result(job) ==
    IF job.kind = "train"
    THEN model_path_of(job.project, TrainedModel)
    ELSE <<"report">>

\* the Deferred of a job, fired with `result`; the handlers start from the
\* value `read` of the router's counter
fire(read, job, result, update_ok) ==
    LET s == RouterState(read, project_store)
    IN IF job.kind = "train"
       THEN training_deferred(s, job.project, result, update_ok)
       ELSE evaluation_deferred(s, job.project, result)

\* d.callback(result) / d.errback(e): the handlers run and the Deferred of
\* the job holds what the last of them returned
run_deferred(read, jobs, call, update_ok) ==
    LET o == fire(read, jobs[call.job], call.result, update_ok)
    IN /\ current_worker_processes' = o.cwp
       /\ project_store' = o.store
       /\ futures' = [jobs EXCEPT
                         ![call.job].deferred =
                            IF o.result.ok THEN "ok" ELSE "failed",
                         ![call.job].handlers = @ \o o.ran]

\* mutant: the result of the job is passed on whatever the future holds
callback_ignores_exception(j, e) ==
    [job |-> j, result |-> Success(job_result(futures[j]))]

\* deferred_from_future.callback(future): d.errback(e) when the future holds
\* an exception, d.callback(future.result()) otherwise
callback(j, e) ==
    [job |-> j,
     result |-> IF e # None THEN Failure(e)
                ELSE Success(job_result(futures[j]))]

\* a job of the pool finishes, with exception e (None: it returned), and the
\* done-callback of its future runs on the pool's thread: the call is queued
\* for the reactor thread, or, with the flag off, made on the spot. The
\* handlers then begin on the pool's thread, which is not the thread of the
\* requests: the first of them has read the router's counter for its
\*  -= 1  and has not written it back yet
done_callback(run_in_reactor_thread, j, e) ==
    /\ j \in 1..Len(futures)
    /\ ~futures[j].done
    /\ pool_thread = <<>>
    /\ futures' = [futures EXCEPT ![j].done = TRUE, ![j].exception = e]
    /\ IF run_in_reactor_thread
       THEN /\ reactor_queue' = Append(reactor_queue, callback(j, e))
            /\ UNCHANGED pool_thread
       ELSE /\ pool_thread' = <<[call |-> callback(j, e),
                                 read |-> current_worker_processes]>>
            /\ UNCHANGED reactor_queue
    /\ UNCHANGED <<worker_processes, current_worker_processes, project_store>>

\* the done-callback under the flag of the module
future_done(j, e) == done_callback(DEFERRED_RUN_IN_REACTOR_THREAD, j, e)

\* the reactor runs the next call queued by callFromThread
reactor_run ==
    /\ reactor_queue # <<>>
    /\ \E update_ok \in BOOLEAN :
          run_deferred(current_worker_processes, futures,
                       Head(reactor_queue), update_ok)
    /\ reactor_queue' = Tail(reactor_queue)
    /\ UNCHANGED <<worker_processes, pool_thread>>

\* the pool's thread goes on with the handlers it began: the counter is
\* written back from the value read, and the rest of the handlers runs
pool_thread_run ==
    /\ pool_thread # <<>>
    /\ \E update_ok \in BOOLEAN :
          run_deferred(pool_thread[1].read, futures, pool_thread[1].call,
                       update_ok)
    /\ pool_thread' = <<>>
    /\ UNCHANGED <<worker_processes, reactor_queue>>

\* ----------------------------------------------------------- specification
\* DataRouter.__init__ and _create_project_store
Init ==
    /\ \E max_worker_processes \in 0..MaxWorkers :
          worker_processes = Max(max_worker_processes, 1)
    /\ current_worker_processes = 0
    /\ \E names \in (SUBSET ProjectNames) \ {{}} :
          project_store \in [names -> {Project(m) : m \in InitialModels}]
    /\ futures = <<>>
    /\ reactor_queue = <<>>
    /\ pool_thread = <<>>

Next ==
    \/ \E project \in ProjectArgs : start_train_process(project)
    \/ \E project \in ProjectArgs, model \in ModelArgs : evaluate(project, model)
    \/ \E project \in ProjectNames : parse(project)
    \/ \E j \in 1..MaxJobs, e \in JobErrors \cup {None} : future_done(j, e)
    \/ reactor_run

Spec == Init /\ [][Next]_vars

\* the steps of the program when DEFERRED_RUN_IN_REACTOR_THREAD is off
NextInline ==
    \/ \E project \in ProjectArgs : start_train_process(project)
    \/ \E project \in ProjectArgs, model \in ModelArgs : evaluate(project, model)
    \/ \E project \in ProjectNames : parse(project)
    \/ \E j \in 1..MaxJobs, e \in JobErrors \cup {None} :
          done_callback(FALSE, j, e)
    \/ pool_thread_run

SpecInline == Init /\ [][NextInline]_vars

\* every job finishes and every queued delivery is run by the reactor
FairSpec ==
    /\ Spec
    /\ WF_vars(\E j \in 1..MaxJobs, e \in JobErrors \cup {None} : future_done(j, e))
    /\ WF_vars(reactor_run)

\* ------------------------------------------------------------------ claims
Jobs == DOMAIN futures
Projects == DOMAIN project_store
JobsOf(p) == {j \in Jobs : futures[j].project = p}

\* the step in which the reactor runs the completion handlers of job j
Delivers(j) ==
    /\ reactor_queue # <<>>
    /\ Head(reactor_queue).job = j
    /\ reactor_queue' = Tail(reactor_queue)
    /\ futures[j].deferred = "pending"
    /\ futures'[j].deferred # "pending"

\* every failed handle belongs to a job that raised: no success handler
\* failed while recording its model
EveryFailureIsAJobFailure ==
    \A k \in Jobs : futures[k].deferred = "failed" => futures[k].exception # None

\* C1: the router's in-flight counter stays within 0..max_worker_processes
\* in every state between two event-loop steps.
C1_CounterWithinCapacity ==
    /\ 0 <= current_worker_processes
    /\ current_worker_processes <= worker_processes

\* the router is full again after a job already failed
C1_Witness ==
    /\ current_worker_processes = worker_processes
    /\ \E j \in Jobs : futures[j].deferred = "failed"

\* C2 as stated: every start_train_process call made at capacity raises
\* MaxWorkerProcessError and changes nothing.
C2_AtCapacityAlwaysCapacityError ==
    /\ [](\A p \in ProjectArgs :
             current_worker_processes = worker_processes
                => start_train_process_result(p) = MaxWorkerProcessError)
    /\ [][\A p \in ProjectArgs :
             (/\ current_worker_processes = worker_processes
              /\ start_train_process(p))
             => UNCHANGED vars]_vars

\* C2 amended: a start_train_process call made at capacity changes no
\* counter, project or job; it raises MaxWorkerProcessError when the project
\* name is non-empty and InvalidProjectError when it is empty.
C2_AtCapacityRejectedUnchanged ==
    /\ [](\A p \in ProjectArgs :
             current_worker_processes = worker_processes
                => start_train_process_result(p) =
                      IF p = "" THEN InvalidProjectError
                      ELSE MaxWorkerProcessError)
    /\ [][\A p \in ProjectArgs :
             (/\ current_worker_processes = worker_processes
              /\ start_train_process(p))
             => UNCHANGED vars]_vars

\* one job holds the only worker and a training request for another project,
\* not registered yet, is turned away
C2_Witness ==
    /\ current_worker_processes = worker_processes
    /\ \E j \in Jobs : futures[j].deferred = "pending"
    /\ \E p \in ProjectNames :
          /\ p \notin Projects
          /\ start_train_process_result(p) = MaxWorkerProcessError

\* the sum of the in-flight counters of the projects `names`
RECURSIVE SumCounts(_, _)
SumCounts(store, names) ==
    IF names = {} THEN 0
    ELSE LET n == CHOOSE x \in names : TRUE
         IN store[n].current_worker_processes + SumCounts(store, names \ {n})

\* C3: the router's counter is the sum of the projects' counters.
C3_GlobalIsSumOfProjects ==
    current_worker_processes = SumCounts(project_store, Projects)

\* two projects hold one job each
C3_Witness ==
    /\ \E p \in Projects, q \in Projects :
          /\ p # q
          /\ project_store[p].current_worker_processes = 1
          /\ project_store[q].current_worker_processes = 1
    /\ current_worker_processes = 2

\* a training job returned and its success handler ran to its end
TrainingSucceeds(j) ==
    /\ Delivers(j)
    /\ futures[j].kind = "train"
    /\ futures'[j].deferred = "ok"

\* C4 as stated: after a training job succeeds the project is READY when its
\* count reached 0 and TRAINING otherwise (already where the only failures
\* are failures of jobs).
C4_SuccessGivesReadyOrTraining ==
    [][\A j \in Jobs :
          (TrainingSucceeds(j) /\ EveryFailureIsAJobFailure) =>
             LET p == futures[j].project
             IN project_store'[p].status =
                  IF project_store'[p].current_worker_processes = 0
                  THEN STATUS_READY ELSE STATUS_TRAINING]_vars

\* C4 amended: after a training job succeeds and its model is recorded, the
\* project becomes READY when its count reached 0 and its status was
\* TRAINING; in every other case the status is left as it was.
C4_SuccessReadyOnlyFromTraining ==
    [][\A j \in Jobs :
          TrainingSucceeds(j) =>
             LET p == futures[j].project
             IN project_store'[p].status =
                  IF /\ project_store'[p].current_worker_processes = 0
                     /\ project_store[p].status = STATUS_TRAINING
                  THEN STATUS_READY ELSE project_store[p].status]_vars

\* a training job succeeded last and left its project READY and idle
C4_Witness ==
    \E j \in Jobs :
       /\ futures[j].kind = "train"
       /\ futures[j].deferred = "ok"
       /\ project_store[futures[j].project].status = STATUS_READY
       /\ project_store[futures[j].project].current_worker_processes = 0

\* the failure handler of a training job ran
TrainingFails(j) ==
    /\ Delivers(j)
    /\ futures[j].kind = "train"
    /\ futures'[j].deferred = "failed"

\* C5: right after the failure handler of a training job, its project is
\* FAILED and carries a non-empty error message.
C5_FailureMarksFailed ==
    [][\A j \in Jobs :
          TrainingFails(j) =>
             LET p == futures[j].project
             IN /\ project_store'[p].status = STATUS_FAILED
                /\ project_store'[p].error_message \notin {None, ""}]_vars

\* a training job failed while another job of the project is in flight
C5_Witness ==
    \E j \in Jobs :
       /\ futures[j].kind = "train"
       /\ futures[j].deferred = "failed"
       /\ futures[j].exception # None
       /\ project_store[futures[j].project].status = STATUS_FAILED
       /\ project_store[futures[j].project].current_worker_processes >= 1

\* C6: a project in status TRAINING has at least one job in flight (already
\* where the only failures are failures of jobs).
C6_TrainingHasJobInFlight ==
    EveryFailureIsAJobFailure =>
    \A p \in Projects :
       project_store[p].status = STATUS_TRAINING
          => project_store[p].current_worker_processes >= 1

\* C7: once a project's count is back at 0, if none of its jobs failed and
\* one of them was a training job, the project is READY, in whatever order
\* the jobs completed.
C7_AllSucceededGivesReady ==
    \A p \in Projects :
       (/\ project_store[p].current_worker_processes = 0
        /\ \E j \in JobsOf(p) : futures[j].kind = "train"
        /\ \A j \in JobsOf(p) : futures[j].deferred = "ok")
          => project_store[p].status = STATUS_READY

\* C8: a project carries an error message exactly when it is FAILED (already
\* where the only failures are failures of jobs).
C8_ErrorMessageIffFailed ==
    EveryFailureIsAJobFailure =>
    \A p \in Projects :
       (project_store[p].error_message # None)
          <=> (project_store[p].status = STATUS_FAILED)

\* the completion handler of an evaluation job ran
EvaluationCompletes(j) ==
    /\ Delivers(j)
    /\ futures[j].kind = "evaluate"

\* C9: the completion of an evaluation job changes no project's status or
\* error message; it takes one off the router's counter and off the owning
\* project's counter and leaves the other counters alone.
C9_EvaluationKeepsStatus ==
    [][\A j \in Jobs :
          EvaluationCompletes(j) =>
             /\ DOMAIN project_store' = Projects
             /\ current_worker_processes' = current_worker_processes - 1
             /\ \A p \in Projects :
                   /\ project_store'[p].status = project_store[p].status
                   /\ project_store'[p].error_message =
                         project_store[p].error_message
                   /\ project_store'[p].models = project_store[p].models
                   /\ project_store'[p].current_worker_processes =
                         project_store[p].current_worker_processes
                         - (IF p = futures[j].project THEN 1 ELSE 0)]_vars

\* an evaluation failed and its project is still READY
C9_Witness ==
    \E j \in Jobs :
       /\ futures[j].kind = "evaluate"
       /\ futures[j].deferred = "failed"
       /\ project_store[futures[j].project].status = STATUS_READY

AllDelivered == \A j \in Jobs : futures[j].deferred # "pending"

\* C10: when every job finishes and every completion is delivered, a full
\* router gets below its limit again; with every job delivered the counter
\* is 0, a training request is admitted and no evaluation request is turned
\* away for capacity.
C10_CapacityIsReleased ==
    /\ (current_worker_processes = worker_processes)
          ~> (current_worker_processes < worker_processes)
    /\ [](AllDelivered =>
            /\ current_worker_processes = 0
            /\ \A p \in ProjectNames :
                  start_train_process_result(p) = "Deferred"
            /\ \A p \in ProjectArgs, m \in ModelArgs :
                  evaluate_result(p, m) # MaxWorkerProcessError)

\* with one worker, a job failed and the next request was admitted
C10_Witness ==
    /\ worker_processes = 1
    /\ Len(futures) = 2
    /\ futures[1].deferred = "failed"
    /\ futures[2].deferred = "pending"
    /\ current_worker_processes = 1

\* the jobs whose completion handlers have not run yet
Pending == {j \in Jobs : futures[j].deferred = "pending"}

\* the step that admits a training job for project p
AdmitsTraining(p) ==
    /\ Len(futures') = Len(futures) + 1
    /\ futures'[Len(futures')].kind = "train"
    /\ futures'[Len(futures')].project = p

\* C11: the step that admits a training job for P leaves P registered and
\* TRAINING, with the router's and P's counters one higher, and the job
\* submitted; so every job whose handlers have not run belongs to a
\* registered project whose counter counts it.
C11_AdmissionRegistersAndCounts ==
    /\ [][\A p \in ProjectNames :
             AdmitsTraining(p) =>
                /\ p \in DOMAIN project_store'
                /\ project_store'[p].status = STATUS_TRAINING
                /\ current_worker_processes' = current_worker_processes + 1
                /\ project_store'[p].current_worker_processes =
                      (IF p \in Projects
                       THEN project_store[p].current_worker_processes
                       ELSE 0) + 1
                /\ futures'[Len(futures')].deferred = "pending"]_vars
    /\ [](\A j \in Pending :
             /\ futures[j].project \in Projects
             /\ project_store[futures[j].project].current_worker_processes >= 1)

\* a project that had failed is TRAINING again, with its new job in flight
C11_Witness ==
    \E j \in Pending :
       /\ futures[j].kind = "train"
       /\ ~futures[j].done
       /\ project_store[futures[j].project].status = STATUS_TRAINING
       /\ project_store[futures[j].project].error_message # None
       /\ project_store[futures[j].project].current_worker_processes = 1

\* the number of deliveries of job j waiting in the reactor's queue
Queued(j) ==
    Cardinality({i \in DOMAIN reactor_queue : reactor_queue[i].job = j})

\* a finished job is waiting for the reactor exactly once until its
\* handlers have run, and never otherwise
NoCompletionDropped ==
    \A j \in Jobs :
       Queued(j) = IF futures[j].done /\ futures[j].deferred = "pending"
                   THEN 1 ELSE 0

\* C12 as stated: for every job exactly one handler runs, once: the failure
\* handler exactly when the job raised, the success handler otherwise; no
\* completion is dropped and the handle fails exactly when the job failed.
C12_ExactlyOneHandler ==
    /\ NoCompletionDropped
    /\ \A j \in Jobs :
          IF futures[j].deferred = "pending"
          THEN futures[j].handlers = <<>>
          ELSE /\ futures[j].handlers =
                     IF futures[j].exception # None
                     THEN <<"errback">> ELSE <<"callback">>
               /\ (futures[j].deferred = "failed")
                     <=> (futures[j].exception # None)

\* C12 amended: no completion is dropped; when the job raised, the failure
\* handler alone runs, once, and the handle fails; when the job returned,
\* the success handler runs once, and either it returns and the handle
\* succeeds, or (training jobs only) it fails itself, the failure handler
\* runs once after it and the handle fails.
C12_HandlersFollowOutcome ==
    /\ NoCompletionDropped
    /\ \A j \in Jobs :
          IF futures[j].deferred = "pending"
          THEN futures[j].handlers = <<>>
          ELSE IF futures[j].exception # None
          THEN /\ futures[j].handlers = <<"errback">>
               /\ futures[j].deferred = "failed"
          ELSE \/ /\ futures[j].handlers = <<"callback">>
                  /\ futures[j].deferred = "ok"
               \/ /\ futures[j].kind = "train"
                  /\ futures[j].handlers = <<"callback", "errback">>
                  /\ futures[j].deferred = "failed"

\* a job raised and its failure handler ran; another returned and its
\* success handler failed, so that both its handlers ran
C12_Witness ==
    \E j \in Jobs, k \in Jobs :
       /\ futures[j].exception # None
       /\ futures[j].handlers = <<"errback">>
       /\ futures[k].done
       /\ futures[k].exception = None
       /\ futures[k].handlers = <<"callback", "errback">>

\* the done-callback of the future of job j fires on the thread that
\* manages the pool
CompletionFires(j) ==
    /\ ~futures[j].done
    /\ futures'[j].done

\* C13: with DEFERRED_RUN_IN_REACTOR_THREAD on, a completion firing on the
\* pool's thread changes no counter and no project and only queues one
\* delivery for the reactor; the counters and projects change only in the
\* reactor's steps, and the handlers of a job run in one such step.
C13_CompletionOnlyEnqueues ==
    [][/\ \A j \in Jobs :
             CompletionFires(j) =>
                /\ UNCHANGED <<current_worker_processes, project_store>>
                /\ futures'[j].deferred = "pending"
                /\ futures'[j].handlers = <<>>
                /\ Len(reactor_queue') = Len(reactor_queue) + 1
                /\ reactor_queue'[Len(reactor_queue')].job = j
       /\ \A j \in Jobs :
             futures'[j].handlers # futures[j].handlers =>
                /\ reactor_queue # <<>>
                /\ Head(reactor_queue).job = j
                /\ reactor_queue' = Tail(reactor_queue)
                /\ futures'[j].deferred # "pending"]_vars

\* a job failed and its delivery waits in the queue: the counters still
\* count it and its project is still TRAINING
C13_Witness ==
    \E j \in Jobs :
       /\ futures[j].done
       /\ futures[j].exception # None
       /\ futures[j].kind = "train"
       /\ futures[j].deferred = "pending"
       /\ Queued(j) = 1
       /\ project_store[futures[j].project].status = STATUS_TRAINING
       /\ current_worker_processes >= 1

\* the handlers of job j run in this step
HandlersRun(j) == futures'[j].handlers # futures[j].handlers

\* what the handlers of job j do when the reactor runs them: one handler per
\* outcome (two when the success handler of a training job fails), one off
\* both counters, and the status rule of the handler that ran
ScheduledEffect(j) ==
    LET p == futures[j].project
        before == project_store[p]
        after == project_store'[p]
    IN /\ current_worker_processes' = current_worker_processes - 1
       /\ after.current_worker_processes = before.current_worker_processes - 1
       /\ IF futures[j].exception # None
          THEN /\ futures'[j].handlers = <<"errback">>
               /\ futures'[j].deferred = "failed"
          ELSE \/ /\ futures'[j].handlers = <<"callback">>
                  /\ futures'[j].deferred = "ok"
               \/ /\ futures[j].kind = "train"
                  /\ futures'[j].handlers = <<"callback", "errback">>
                  /\ futures'[j].deferred = "failed"
       /\ IF futures[j].kind = "evaluate"
          THEN /\ after.status = before.status
               /\ after.error_message = before.error_message
          ELSE IF futures'[j].deferred = "failed"
          THEN /\ after.status = STATUS_FAILED
               /\ after.error_message \notin {None, ""}
          ELSE /\ after.status =
                     IF /\ after.current_worker_processes = 0
                        /\ before.status = STATUS_TRAINING
                     THEN STATUS_READY ELSE before.status
               /\ after.error_message = before.error_message
       /\ \A q \in Projects \ {p} : project_store'[q] = project_store[q]

\* with the flag off, a finished job is in the hands of the pool's thread
\* until its handlers have run
NoCompletionDroppedInline ==
    \A j \in Jobs :
       (futures[j].done /\ futures[j].deferred = "pending")
          => (pool_thread # <<>> /\ pool_thread[1].call.job = j)

\* C14 as stated: with DEFERRED_RUN_IN_REACTOR_THREAD off, the handlers
\* that run, the handle and the resulting counters, statuses and error
\* messages are those of the scheduled handlers, also when the completion
\* fires while a request is being served.
C14_InlineSameAsScheduled ==
    /\ []NoCompletionDroppedInline
    /\ [][\A j \in Jobs : HandlersRun(j) => ScheduledEffect(j)]_vars

\* C15: an evaluate call is rejected with MaxWorkerProcessError whenever
\* the router is at capacity, with InvalidProjectError only for a project
\* that is not registered, with UnsupportedModelError only when the model
\* resolves to the fallback model; a rejected call changes no counter, no
\* project and submits no job.
C15_RejectedEvaluateChangesNothing ==
    /\ [](\A p \in ProjectArgs, m \in ModelArgs :
             LET q == project_or_default(p)
                 r == evaluate_result(p, m)
             IN /\ current_worker_processes >= worker_processes
                      => r = MaxWorkerProcessError
                /\ r = InvalidProjectError => q \notin Projects
                /\ r = UnsupportedModelError =>
                      /\ q \in Projects
                      /\ \/ m = FALLBACK_MODEL_NAME
                         \/ m = None /\ project_store[q].models = <<>>
                /\ r \in {MaxWorkerProcessError, InvalidProjectError,
                          UnsupportedModelError, "Deferred"})
    /\ [][\A p \in ProjectArgs, m \in ModelArgs :
             (evaluate_result(p, m) # "Deferred" /\ evaluate(p, m))
                => UNCHANGED vars]_vars

\* with a job in flight and a worker free, an evaluation of a project
\* without models is rejected for its model and one of an unregistered
\* project for its project
C15_Witness ==
    /\ current_worker_processes = 1
    /\ current_worker_processes < worker_processes
    /\ Len(futures) < MaxJobs
    /\ \E p \in ProjectNames :
          evaluate_result(p, None) = UnsupportedModelError
    /\ \E p \in ProjectNames :
          evaluate_result(p, "m0") = InvalidProjectError

\* C16: between two steps, the counter of every project is the number of
\* its submitted jobs whose handlers have not run, and the router's counter
\* is the number of all such jobs, which never exceeds the pool size; every
\* job belongs to a registered project, and a rejected request submits
\* nothing.
C16_CountersCountPendingJobs ==
    /\ [](/\ \A p \in Projects :
                project_store[p].current_worker_processes =
                   Cardinality(JobsOf(p) \cap Pending)
          /\ \A j \in Jobs : futures[j].project \in Projects
          /\ current_worker_processes = Cardinality(Pending)
          /\ Cardinality(Pending) <= worker_processes)
    /\ [][/\ \A p \in ProjectArgs :
                (start_train_process_result(p) # "Deferred"
                    /\ start_train_process(p)) => futures' = futures
          /\ \A p \in ProjectArgs, m \in ModelArgs :
                (evaluate_result(p, m) # "Deferred" /\ evaluate(p, m))
                   => futures' = futures]_vars

\* one job of a project was delivered and another is in flight, while a
\* second project has no job
C16_Witness ==
    \E p \in Projects, q \in Projects :
       /\ p # q
       /\ project_store[p].current_worker_processes = 1
       /\ Cardinality(JobsOf(p)) = 2
       /\ JobsOf(q) = {}
       /\ current_worker_processes = 1

\* C17: every step that turns the status of a registered project into
\* READY runs the success handler of a training job of that project, taken
\* with the status TRAINING and leaving the project's count at 0; no other
\* step does.
C17_ReadyOnlyByTrainingSuccess ==
    [][\A p \in Projects :
          (/\ project_store[p].status # STATUS_READY
           /\ project_store'[p].status = STATUS_READY)
             => /\ project_store[p].status = STATUS_TRAINING
                /\ project_store'[p].current_worker_processes = 0
                /\ \E j \in JobsOf(p) :
                      /\ TrainingSucceeds(j)
                      /\ futures[j].exception = None
                      /\ futures'[j].handlers = <<"callback">>]_vars

\* a project that had failed was trained again and is READY and idle
C17_Witness ==
    \E p \in Projects :
       /\ project_store[p].status = STATUS_READY
       /\ project_store[p].error_message # None
       /\ project_store[p].current_worker_processes = 0

\* the status, in-flight count and error message of project q are left as
\* they were
RecordKept(q) ==
    /\ q \in DOMAIN project_store'
    /\ project_store'[q].status = project_store[q].status
    /\ project_store'[q].current_worker_processes =
          project_store[q].current_worker_processes
    /\ project_store'[q].error_message = project_store[q].error_message

\* C18: the step that runs the handlers of a job of project P, and the step
\* that admits a job of P, leave the status, in-flight count and error
\* message of every other project as they were.
C18_OtherProjectsUntouched ==
    [][/\ \A j \in Jobs :
             HandlersRun(j) =>
                \A q \in Projects \ {futures[j].project} : RecordKept(q)
       /\ Len(futures') = Len(futures) + 1 =>
             \A q \in Projects \ {futures'[Len(futures')].project} :
                RecordKept(q)]_vars

\* a training job of one project failed while a job of another project is
\* in flight: the other project is not FAILED and still counts its job
C18_Witness ==
    \E j \in Jobs, k \in Jobs :
       /\ futures[j].project # futures[k].project
       /\ futures[j].kind = "train"
       /\ futures[j].deferred = "failed"
       /\ futures[k].deferred = "pending"
       /\ project_store[futures[j].project].status = STATUS_FAILED
       /\ project_store[futures[k].project].status # STATUS_FAILED
       /\ project_store[futures[k].project].current_worker_processes = 1

\* C19: the handlers of a job run in one step, once, and take exactly one
\* off the router's counter and off the counter of the job's project, also
\* when the success handler of a training job fails and the failure handler
\* runs after it, which then leaves the project FAILED; no other step
\* lowers a counter, and no counter is ever negative.
C19_OneDecrementPerJob ==
    /\ [](/\ current_worker_processes >= 0
          /\ \A p \in Projects :
                project_store[p].current_worker_processes >= 0)
    /\ [][/\ \A j \in Jobs :
                IF HandlersRun(j)
                THEN LET p == futures[j].project
                     IN /\ futures[j].handlers = <<>>
                        /\ current_worker_processes' =
                              current_worker_processes - 1
                        /\ project_store'[p].current_worker_processes =
                              project_store[p].current_worker_processes - 1
                        /\ futures'[j].handlers = <<"callback", "errback">>
                              => /\ project_store'[p].status = STATUS_FAILED
                                 /\ futures'[j].deferred = "failed"
                ELSE futures'[j].deferred = futures[j].deferred
          /\ (\A j \in Jobs : ~HandlersRun(j)) =>
                /\ current_worker_processes' >= current_worker_processes
                /\ \A p \in Projects :
                      project_store'[p].current_worker_processes >=
                         project_store[p].current_worker_processes]_vars

\* the only training job returned, its success handler failed and the
\* failure handler ran: the project is FAILED and both counters are 0
C19_Witness ==
    \E j \in Jobs :
       /\ Jobs = {j}
       /\ futures[j].kind = "train"
       /\ futures[j].exception = None
       /\ futures[j].handlers = <<"callback", "errback">>
       /\ project_store[futures[j].project].status = STATUS_FAILED
       /\ project_store[futures[j].project].current_worker_processes = 0
       /\ current_worker_processes = 0

\* C20: start_train_process with an empty project name raises
\* InvalidProjectError also when the router is at capacity, while evaluate
\* at capacity raises MaxWorkerProcessError also when the project is not
\* registered or no model can be resolved.
C20_ValidationPrecedence ==
    /\ start_train_process_result("") = InvalidProjectError
    /\ current_worker_processes >= worker_processes =>
          \A p \in ProjectArgs, m \in ModelArgs :
             evaluate_result(p, m) = MaxWorkerProcessError

\* the router is at capacity, one project is not registered and a
\* registered one has no model
C20_Witness ==
    /\ current_worker_processes = worker_processes
    /\ \E p \in ProjectNames : p \notin Projects
    /\ \E p \in Projects : project_store[p].models = <<>>
    /\ \E j \in Jobs : futures[j].kind = "evaluate"

====
